---- MODULE Spec2Model ----
(***************************************************************************)
(* Print-preview viewer: probe-based frame discovery (imageService.ts)    *)
(* and the three PrinterView players built on it: the plain scrub player, *)
(* the start/stop ("hybrid") player and the auto-looping live player.      *)
(*                                                                         *)
(* One view instance is modelled.  `variant` selects which of the three    *)
(* PrinterView sources the instance runs; it is fixed by Init.  A handler  *)
(* and the React commit that follows it (render, effect cleanups, effect   *)
(* bodies) form one atomic action.  State updates issued by one handler    *)
(* or by one continuation of an async function are batched.                *)
(*                                                                         *)
(* Specifications: Spec (one view, any player), SpecDiscover and           *)
(* FairDiscover (one findRecentImages call, probe by probe), SpecMerge     *)
(* (the setFrames merge on its own), SpecLoop (a live player whose store   *)
(* outgrows the loop window), SpecWrap (a live player over midnight),      *)
(* SpecListing (the folder listing of useOneDriveImages.ts), SpecPlay      *)
(* (Spec together with the slideshow of the listing's PrinterView) and     *)
(* SpecLive and FairLive (a started view in front of a printer that        *)
(* uploads as the clock runs).                                             *)
(***************************************************************************)
EXTENDS Integers, Sequences, FiniteSets, Bags, TLC

\* ------------------------------------------------------------------ bounds
\* Minutes of the (shortened) day the clock can show to a view: 0..MaxMinute.
MaxMinute == 2
\* Discovery calls of one view that may be unresolved at the same time.
MaxInFlight == 2
\* Arguments of a stand-alone findRecentImages call.
MaxStart == 5
MaxCount == 3
MaxGapArg == 3
\* Minutes a stand-alone merge draws its store and its result from:
\* 0..MaxMergeMinute.
MaxMergeMinute == 3
\* Times a stand-alone merge applies its refresh result.
MaxApply == 2
\* The minute the clock shows to the scans of a long-running live player, one
\* that can hold more than LOOP_COUNT frames.
MaxLoopMinute == 11
\* Midnights the clock passes while a view is under observation.
MaxDay == 1
\* Last minute of the day in front of a running printer (SpecLive).
MaxLiveMinute == 1
\* Frames of one printer in a listing.
MaxFrames == 3
\* Entries of the shared folder that a listing returns.
MaxChildren == 3

\* ------------------------------------------------------- program constants
SCAN_COUNT == 60
SCAN_GAP == 10
LOOP_COUNT == 10
DEFAULT_SPEED == 500

PRINTERS == {"h2c", "h2d"}
Speeds == {1000, 500, 200}
Variants == {"scrub", "hybrid", "live"}
Minutes == 0..MaxMinute
ProbeEvents == {"onload", "onerror"}

VARIABLES
  \* ---- one PrinterView instance
  variant,        \* which PrinterView source this instance runs
  mounted,        \* FALSE once the instance is unmounted
  printer,        \* the `printer` prop
  frames,         \* useState<FrameData[]>
  currentIndex,   \* useState(0), scrub and hybrid players
  loopIndex,      \* useState(0), live player
  playing, loading, speed, live, hasLoaded,
  intervalRef,    \* advance timer handle (scrub, hybrid)
  loopRef,        \* advance timer handle (live)
  refreshRef,     \* refresh timer handle (hybrid, live)
  refreshInterval,\* refresh timer handle held by the effect closure (scrub)
  advanceTimers,  \* number of advance intervals that are active
  refreshTimers,  \* number of refresh intervals that are active
  inflight,       \* loadImages calls suspended at `await findRecentImages`
  lastOp,         \* the handler that ran last (history, not program state)
  day,            \* midnights the clock has passed (history)
  firstSeen,      \* per frame of the store: `day` of the scan that found it
                  \* first (history)
  now,            \* the minute the clock shows (getUKMinutesSinceMidnight)
  source,         \* minutes whose image exists at the source
  lastTick,       \* clock minute of the last refresh tick (history)
  \* ---- one stand-alone findRecentImages call
  d_pc,           \* "off" | "loop" | "await" | "done"
  d_printer, d_start, d_count, d_maxGap,
  d_m, d_results, d_misses,
  d_outstanding,  \* probes issued and not yet resolved
  d_log,          \* probes resolved so far, in order: [minute, event]
  d_returned,     \* the resolved value of the call
  \* ---- one stand-alone run of the setFrames merge
  m_images,       \* the refresh result (`images`)
  m_stores,       \* the store before and after each application (`prev`)
  m_updates,      \* per application: React saw a new array (a state update)
  \* ---- one component using useOneDriveImages
  l_pc,           \* "off" | "fetch" | "json" | "done": where fetchImages is
  l_folder,       \* the entries of the shared folder (`data.value`)
  l_printers, l_loading, l_error,   \* the hook's three useState cells
  l_cancelled,    \* the effect closure's `cancelled` flag
  l_requests,     \* fetch calls issued so far
  l_log,          \* awaits settled so far: [event, cancelled] (history)
  \* ---- one PrinterView of the listing-based application
  pvMounted,
  totalFrames,    \* printer.frames.length
  currentFrame,   \* index of the frame shown
  pvTimers        \* frame intervals that are active

viewVars == <<variant, mounted, printer, frames, currentIndex, loopIndex,
              playing, loading, speed, live, hasLoaded, intervalRef, loopRef,
              refreshRef, refreshInterval, advanceTimers, refreshTimers,
              inflight, lastOp, day, firstSeen, now, source, lastTick>>
scanVars == <<d_pc, d_printer, d_start, d_count, d_maxGap, d_m, d_results,
              d_misses, d_outstanding, d_log, d_returned>>
mergeVars == <<m_images, m_stores, m_updates>>
listingVars == <<l_pc, l_folder, l_printers, l_loading, l_error, l_cancelled,
                 l_requests, l_log>>
slideVars == <<pvMounted, totalFrames, currentFrame, pvTimers>>
vars == <<viewVars, scanVars, mergeVars, listingVars, slideVars>>

\* ----------------------------------------------------------------- helpers
Reverse(s) == [i \in 1..Len(s) |-> s[Len(s) + 1 - i]]

Max(a, b) == IF a >= b THEN a ELSE b
Min(a, b) == IF a <= b THEN a ELSE b

Range(s) == {s[i] : i \in 1..Len(s)}

minutesOf(s) == {s[i].minute : i \in 1..Len(s)}

StrictlyAscending(s) == \A i \in 1..Len(s) - 1 : s[i].minute < s[i + 1].minute

\* ------------------------------------------------------------ imageService
\* The locator is the template's two holes: `${BASE_URL}/${printer}_${minute}.jpg`.
getImageUrl(p, minute) == <<p, minute>>

Frame(p, minute) == [minute |-> minute, url |-> getImageUrl(p, minute)]

\* imageExists as it would be if onerror rejected the promise.
imageExistsRejects(event) ==
  IF event = "onload" THEN [settled |-> "fulfilled", value |-> TRUE]
  ELSE [settled |-> "rejected", value |-> FALSE]

\* The promise imageExists returns, once the image element has fired `event`:
\* onload resolves it with true, onerror resolves it with false.
imageExists(event) == [settled |-> "fulfilled", value |-> event = "onload"]

\* The loop condition with `<=` in place of `<`.
loopContinuesInclusive(m, results, count) == m >= 0 /\ Len(results) <= count

\* for (...; m >= 0 && results.length < count; ...)
loopContinues(m, results, count) == m >= 0 /\ Len(results) < count

\* The gap test with `>` in place of `>=`.
gapReachedOffByOne(consecutiveMisses, maxGap) == consecutiveMisses > maxGap

\* if (consecutiveMisses >= maxGap) break;
gapReached(consecutiveMisses, maxGap) == consecutiveMisses >= maxGap

\* The loop body without its `break`.
loopBodyNoBreak(p, m, exists, results, consecutiveMisses, maxGap) ==
  IF exists
  THEN [results |-> Append(results, Frame(p, m)), misses |-> 0, break |-> FALSE]
  ELSE [results |-> results, misses |-> consecutiveMisses + 1, break |-> FALSE]

\* The loop body without the reset of the miss counter on a hit.
loopBodyNoReset(p, m, exists, results, consecutiveMisses, maxGap) ==
  IF exists
  THEN [results |-> Append(results, Frame(p, m)),
        misses |-> consecutiveMisses, break |-> FALSE]
  ELSE [results |-> results,
        misses |-> consecutiveMisses + 1,
        break |-> gapReached(consecutiveMisses + 1, maxGap)]

\* The loop body for candidate minute m once `await imageExists(url)` has
\* produced `exists`: the locals after the body, and whether it left by break.
loopBody(p, m, exists, results, consecutiveMisses, maxGap) ==
  IF exists
  THEN [results |-> Append(results, Frame(p, m)), misses |-> 0, break |-> FALSE]
  ELSE [results |-> results,
        misses |-> consecutiveMisses + 1,
        break |-> gapReached(consecutiveMisses + 1, maxGap)]

\* The return without the reverse.
scanResultUnreversed(results) == results

\* return results.reverse()
scanResult(results) == Reverse(results)

\* The whole loop, run from candidate m with the given locals, when exactly
\* the minutes in `hits` fire onload.  A rejected probe promise makes the
\* `await` throw, which rejects the async function.
RECURSIVE scanFrom(_, _, _, _, _, _, _)
scanFrom(hits, p, m, results, consecutiveMisses, count, maxGap) ==
  IF ~loopContinues(m, results, count)
  THEN [settled |-> "fulfilled", value |-> scanResult(results)]
  ELSE LET probe == imageExists(IF m \in hits THEN "onload" ELSE "onerror")
           b == loopBody(p, m, probe.value, results, consecutiveMisses, maxGap)
       IN IF probe.settled = "rejected"
          THEN [settled |-> "rejected", value |-> <<>>]
          ELSE IF b.break
          THEN [settled |-> "fulfilled", value |-> scanResult(b.results)]
          ELSE scanFrom(hits, p, m - 1, b.results, b.misses, count, maxGap)

\* The promise findRecentImages returns, settled.
findRecentImages(hits, p, startMinute, count, maxGap) ==
  scanFrom(hits, p, startMinute, <<>>, 0, count, maxGap)

\* --------------------------------------- findRecentImages, probe by probe
\* The loop issuing the probe of the next candidate along with each probe,
\* without awaiting it.
EnterLoopLookahead(m, results, misses, outstanding) ==
  /\ d_m' = m
  /\ d_results' = results
  /\ d_misses' = misses
  /\ IF loopContinues(m, results, d_count)
     THEN /\ d_pc' = "await"
          /\ d_outstanding' = outstanding + 2
          /\ d_returned' = d_returned
     ELSE /\ d_pc' = "done"
          /\ d_outstanding' = outstanding
          /\ d_returned' = scanResult(results)

\* From the loop header with locals (m, results, misses) and `outstanding`
\* unresolved probes: either the next probe is issued and the function
\* suspends at the await, or the loop ends and the function returns.
EnterLoop(m, results, misses, outstanding) ==
  /\ d_m' = m
  /\ d_results' = results
  /\ d_misses' = misses
  /\ IF loopContinues(m, results, d_count)
     THEN /\ d_pc' = "await"
          /\ d_outstanding' = outstanding + 1
          /\ d_returned' = d_returned
     ELSE /\ d_pc' = "done"
          /\ d_outstanding' = outstanding
          /\ d_returned' = scanResult(results)

\* findRecentImages(printer, startMinute, count, maxGap) is called.
DiscoverCall ==
  /\ d_pc = "off"
  /\ EnterLoop(d_start, <<>>, 0, d_outstanding)
  /\ UNCHANGED <<d_printer, d_start, d_count, d_maxGap, d_log>>
  /\ UNCHANGED <<viewVars, mergeVars, listingVars, slideVars>>

\* The outstanding probe's image element fires `event`; the function resumes
\* after the await and runs to the next await or to its return.
ProbeSettles(event) ==
  /\ d_pc = "await"
  /\ LET probe == imageExists(event)
         b == loopBody(d_printer, d_m, probe.value, d_results, d_misses, d_maxGap)
     IN /\ d_log' = Append(d_log, [minute |-> d_m, event |-> event])
        /\ IF probe.settled = "rejected"
           THEN /\ d_pc' = "rejected"
                /\ d_outstanding' = d_outstanding - 1
                /\ UNCHANGED <<d_m, d_results, d_misses, d_returned>>
           ELSE IF b.break
           THEN /\ d_pc' = "done"
                /\ d_outstanding' = d_outstanding - 1
                /\ d_m' = d_m
                /\ d_results' = b.results
                /\ d_misses' = b.misses
                /\ d_returned' = scanResult(b.results)
           ELSE EnterLoop(d_m - 1, b.results, b.misses, d_outstanding - 1)
  /\ UNCHANGED <<d_printer, d_start, d_count, d_maxGap>>
  /\ UNCHANGED <<viewVars, mergeVars, listingVars, slideVars>>

mergeAtRest == m_images = <<>> /\ m_stores = <<>> /\ m_updates = <<>>

NoError == <<>>

\* No PrinterView of the listing-based application is mounted.
slideAtRest ==
  pvMounted = FALSE /\ totalFrames = 0 /\ currentFrame = 0 /\ pvTimers = 0

listingAtRest ==
  /\ l_pc = "off" /\ l_folder = <<>> /\ l_printers = <<>>
  /\ l_loading = TRUE /\ l_error = NoError /\ l_cancelled = FALSE
  /\ l_requests = 0 /\ l_log = <<>>

ViewAtRest ==
  /\ variant = "hybrid" /\ mounted = FALSE /\ printer = "h2c"
  /\ frames = <<>> /\ currentIndex = 0 /\ loopIndex = 0
  /\ playing = FALSE /\ loading = FALSE /\ speed = DEFAULT_SPEED
  /\ live = FALSE /\ hasLoaded = FALSE
  /\ intervalRef = "null" /\ loopRef = "null" /\ refreshRef = "null"
  /\ refreshInterval = "null"
  /\ advanceTimers = 0 /\ refreshTimers = 0
  /\ inflight = EmptyBag /\ lastOp = "none"
  /\ day = 0 /\ firstSeen = [f \in {} |-> 0]
  /\ now = 0 /\ source = {} /\ lastTick = 0

\* A stand-alone call: the arguments are drawn from the bounded sets.
InitDiscover ==
  /\ ViewAtRest
  /\ mergeAtRest
  /\ listingAtRest
  /\ slideAtRest
  /\ d_pc = "off"
  /\ d_printer \in PRINTERS
  /\ d_start \in 0..MaxStart
  /\ d_count \in 0..MaxCount
  /\ d_maxGap \in 0..MaxGapArg
  /\ d_m = d_start /\ d_results = <<>> /\ d_misses = 0
  /\ d_outstanding = 0 /\ d_log = <<>> /\ d_returned = <<>>

NextDiscover ==
  \/ DiscoverCall
  \/ \E event \in ProbeEvents : ProbeSettles(event)

SpecDiscover == InitDiscover /\ [][NextDiscover]_vars

\* Every probe's image element eventually fires onload or onerror.
FairDiscover == SpecDiscover /\ WF_vars(NextDiscover)


\* ------------------------------------------------------- interval timers
\* A timer handle cell and the number of intervals of its kind that are
\* active.  ref is "null", "active" (the handle of a running interval) or
\* "cleared" (the handle of an interval that has been cleared).
Timer(ref, n) == [ref |-> ref, n |-> n]

\* ref.current = setInterval(...)
setInterval(t) == [ref |-> "active", n |-> t.n + 1]

\* if (ref.current) clearInterval(ref.current)
clearInterval(t) ==
  IF t.ref = "active" THEN [ref |-> "cleared", n |-> t.n - 1] ELSE t

\* if (ref.current) { clearInterval(ref.current); ref.current = null; }
clearAndNull(t) ==
  IF t.ref = "null" THEN t ELSE [ref |-> "null", n |-> clearInterval(t).n]

\* ------------------------------------------------------ frame store merge
\* Insert f behind every frame whose minute is not greater (stable).
RECURSIVE insertByMinute(_, _)
insertByMinute(f, s) ==
  IF Len(s) = 0 THEN <<f>>
  ELSE IF s[Len(s)].minute <= f.minute THEN Append(s, f)
  ELSE Append(insertByMinute(f, SubSeq(s, 1, Len(s) - 1)), s[Len(s)])

\* .sort((a, b) => a.minute - b.minute)
RECURSIVE sortByMinute(_)
sortByMinute(s) ==
  IF Len(s) = 0 THEN <<>>
  ELSE insertByMinute(s[Len(s)], sortByMinute(SubSeq(s, 1, Len(s) - 1)))

\* The merge without the minute filter.
mergeFramesUnfiltered(prev, images, isInitial) ==
  IF ~isInitial /\ Len(prev) > 0
  THEN IF Len(images) = 0 THEN prev ELSE sortByMinute(prev \o images)
  ELSE images

\* The merge without the sort.
mergeFramesUnsorted(prev, images, isInitial) ==
  IF ~isInitial /\ Len(prev) > 0
  THEN prev \o SelectSeq(images, LAMBDA f : f.minute \notin minutesOf(prev))
  ELSE images

\* The updater passed to setFrames by loadImages(isInitial).
mergeFrames(prev, images, isInitial) ==
  IF ~isInitial /\ Len(prev) > 0
  THEN LET existingMinutes == minutesOf(prev)
           newFrames == SelectSeq(images, LAMBDA f : f.minute \notin existingMinutes)
       IN IF Len(newFrames) = 0 THEN prev
          ELSE sortByMinute(prev \o newFrames)
  ELSE images

\* TRUE when the updater returns the array it was given (`return prev`): the
\* only path on which React sees no state change and skips the re-render.
\* `images` is always a fresh array.
returnsPrev(prev, images, isInitial) ==
  /\ ~isInitial /\ Len(prev) > 0
  /\ Len(SelectSeq(images, LAMBDA f : f.minute \notin minutesOf(prev))) = 0

\* ------------------------------------------------------------- loadImages
\* A loadImages call suspended at `await findRecentImages(...)`.  printer and
\* isInitial are the closure's; the scrub player's loadImages has no
\* parameter, and there isInitial only tells the effect's own call (TRUE)
\* from a call made by its refresh interval (FALSE).  atStop records that stopFeed ran while the
\* call was suspended and the feed has not been started again; day records
\* the day on which the call read the clock.  The calls in flight form a
\* bag: they resume in any order.
Call(isInitial, p) ==
  [isInitial |-> isInitial, printer |-> p, atStop |-> FALSE, day |-> day,
   minute |-> now, seen |-> source]

\* The promise a suspended call resumes with when the clock showed
\* currentMinute at the call and exactly the minutes in `hits` load.  The
\* clock reading is not used before the await returns, and the clock is free
\* to show any minute at any call, so the reading is drawn with the result.
imagesOf(call, currentMinute, hits) ==
  findRecentImages(hits, call.printer, currentMinute, SCAN_COUNT, SCAN_GAP)

\* ---------------------------------------------------------------- effects
\* Each effect is given the timer cell it owns, the dependency values of the
\* previous commit and those of this commit.  When they differ React runs the
\* previous run's cleanup and then the effect body.

\* The animation effect without a cleanup.
animationCleanupMissing(t) == t

\* return () => { if (intervalRef.current) clearInterval(intervalRef.current); }
animationCleanup(t) == clearInterval(t)

\* The animation effect starting its interval whatever the store holds.
animationEffectAnyLength(t, oldDeps, newDeps) ==
  IF oldDeps = newDeps THEN t
  ELSE LET cleaned == animationCleanup(t)
       IN IF newDeps[1] THEN setInterval(cleaned) ELSE cleaned

\* Animation playback effect, deps [playing, frames.length, speed].
animationEffect(t, oldDeps, newDeps) ==
  IF oldDeps = newDeps THEN t
  ELSE LET cleaned == animationCleanup(t)
       IN IF newDeps[1] /\ newDeps[2] > 1 THEN setInterval(cleaned) ELSE cleaned

\* Cleanup of the start/stop player's refresh effect; a run that returned
\* early (!live || !hasLoaded) registered none.
hybridRefreshCleanup(t, deps) == IF deps[1] /\ deps[2] THEN clearAndNull(t) ELSE t

\* Refresh effect of the start/stop player, deps [live, hasLoaded, loadImages];
\* loadImages changes identity exactly when printer does.
hybridRefreshEffect(t, oldDeps, newDeps) ==
  IF oldDeps = newDeps THEN t
  ELSE LET cleaned == hybridRefreshCleanup(t, oldDeps)
       IN IF newDeps[1] /\ newDeps[2] THEN setInterval(cleaned) ELSE cleaned

\* The live player's refresh effect without a cleanup.
liveRefreshCleanupMissing(t, deps) == t

\* Cleanup of the live player's refresh effect; none after an early return.
liveRefreshCleanup(t, deps) == IF deps[1] THEN clearAndNull(t) ELSE t

\* Refresh effect of the live player, deps [live, loadImages].
liveRefreshEffect(t, oldDeps, newDeps) ==
  IF oldDeps = newDeps THEN t
  ELSE LET cleaned == liveRefreshCleanup(t, oldDeps)
       IN IF newDeps[1] THEN setInterval(cleaned) ELSE cleaned

\* frames.slice(-LOOP_COUNT)
loopFramesOf(fs) ==
  IF Len(fs) <= LOOP_COUNT THEN fs ELSE SubSeq(fs, Len(fs) - LOOP_COUNT + 1, Len(fs))

\* The index read without the modulo.
safeIndexOfRaw(index, fs) == index

\* const safeIndex = loopFrames.length > 0 ? loopIndex % loopFrames.length : 0
safeIndexOf(index, fs) ==
  IF Len(loopFramesOf(fs)) > 0 THEN index % Len(loopFramesOf(fs)) ELSE 0

\* Cleanup of the live player's loop effect; none after an early return.
loopCleanup(t, deps) == IF deps[1] /\ deps[2] > 1 THEN clearInterval(t) ELSE t

\* Loop effect of the live player, deps [live, loopFrames.length].
loopEffect(t, oldDeps, newDeps) ==
  IF oldDeps = newDeps THEN t
  ELSE LET cleaned == loopCleanup(t, oldDeps)
       IN IF ~newDeps[1] \/ newDeps[2] <= 1 THEN clearInterval(cleaned)
          ELSE setInterval(cleaned)

\* return () => clearInterval(refreshInterval)
scrubRefreshCleanup(t) == clearInterval(t)

\* Load-and-refresh effect of the scrub player, deps [loadImages]: the timer
\* part.  The loadImages() call it makes is part of the action that re-runs it.
scrubRefreshEffect(t, oldDeps, newDeps) ==
  IF oldDeps = newDeps THEN t ELSE setInterval(scrubRefreshCleanup(t))

animationDeps == <<playing, Len(frames), speed>>
hybridRefreshDeps == <<live, hasLoaded, printer>>
liveRefreshDeps == <<live, printer>>
\* The loop effect depending on frames.length.
loopDepsWholeStore == <<live, Len(frames)>>

\* [live, loopFrames.length]
loopDeps == <<live, Len(loopFramesOf(frames))>>
scrubRefreshDeps == <<printer>>

\* The commit that follows a handler: every effect whose deps changed is
\* cleaned up and re-run.  `refresh` is the refresh timer cell as the handler
\* left it.  Used as the last conjunct of an action, after the handler's
\* assignments.
Commit(refresh) ==
  CASE variant = "scrub" ->
         LET a == animationEffect(Timer(intervalRef, advanceTimers),
                                  animationDeps, animationDeps')
             r == scrubRefreshEffect(refresh, scrubRefreshDeps, scrubRefreshDeps')
         IN /\ intervalRef' = a.ref /\ advanceTimers' = a.n
            /\ refreshInterval' = r.ref /\ refreshTimers' = r.n
            /\ UNCHANGED <<loopRef, refreshRef>>
    [] variant = "hybrid" ->
         LET a == animationEffect(Timer(intervalRef, advanceTimers),
                                  animationDeps, animationDeps')
             r == hybridRefreshEffect(refresh, hybridRefreshDeps, hybridRefreshDeps')
         IN /\ intervalRef' = a.ref /\ advanceTimers' = a.n
            /\ refreshRef' = r.ref /\ refreshTimers' = r.n
            /\ UNCHANGED <<loopRef, refreshInterval>>
    [] variant = "live" ->
         LET a == loopEffect(Timer(loopRef, advanceTimers), loopDeps, loopDeps')
             r == liveRefreshEffect(refresh, liveRefreshDeps, liveRefreshDeps')
         IN /\ loopRef' = a.ref /\ advanceTimers' = a.n
            /\ refreshRef' = r.ref /\ refreshTimers' = r.n
            /\ UNCHANGED <<intervalRef, refreshInterval>>

\* The refresh timer cell of the running variant.
refreshCell ==
  IF variant = "scrub" THEN Timer(refreshInterval, refreshTimers)
  ELSE Timer(refreshRef, refreshTimers)

\* ---------------------------------------------------------- what is shown
\* The branch of the render function that returns, per variant.
showsStart == variant = "hybrid" /\ ~live /\ ~hasLoaded
showsLoading == ~showsStart /\ loading
showsStopped ==
  /\ ~showsStart /\ ~loading /\ ~live
  /\ \/ variant = "hybrid" /\ hasLoaded
     \/ variant = "live" /\ Len(frames) > 0
showsPlayer ==
  /\ ~loading /\ Len(frames) > 0
  /\ variant \in {"hybrid", "live"} => live

\* ------------------------------------------------------- loadImages calls
setAtStop(calls, flag) ==
  LET marked == {[c EXCEPT !.atStop = flag] : c \in BagToSet(calls)}
  IN [c \in marked |-> CopiesIn([c EXCEPT !.atStop = TRUE], calls)
                       + CopiesIn([c EXCEPT !.atStop = FALSE], calls)]
markAtStop(calls) == setAtStop(calls, TRUE)
clearAtStop(calls) == setAtStop(calls, FALSE)

\* loadImages up to its await: setLoading(true) when initial (always, in the
\* scrub player) and the findRecentImages call.
loadImagesCall(isInitial, p, calls) ==
  /\ loading' = (IF isInitial \/ variant = "scrub" THEN TRUE ELSE loading)
  /\ inflight' = calls (+) SetToBag({Call(isInitial, p)})

\* ----------------------------------------------------------------- actions
scanAtRest ==
  /\ d_pc = "off" /\ d_printer = "h2c" /\ d_start = 0 /\ d_count = 0
  /\ d_maxGap = 0 /\ d_m = 0 /\ d_results = <<>> /\ d_misses = 0
  /\ d_outstanding = 0 /\ d_log = <<>> /\ d_returned = <<>>

\* The instance after its first commit and its mount effects.
Init ==
  /\ scanAtRest
  /\ mergeAtRest
  /\ listingAtRest
  /\ slideAtRest
  /\ variant \in Variants
  /\ lastOp = "mount"
  /\ day = 0 /\ firstSeen = [f \in {} |-> 0]
  /\ now = 0 /\ source = {} /\ lastTick = 0
  /\ printer \in PRINTERS
  /\ mounted = TRUE
  /\ frames = <<>> /\ currentIndex = 0 /\ loopIndex = 0
  /\ playing = FALSE /\ speed = DEFAULT_SPEED
  /\ hasLoaded = FALSE
  /\ intervalRef = "null" /\ loopRef = "null" /\ advanceTimers = 0
  /\ CASE variant = "scrub" ->
            \* loadImages(); const refreshInterval = setInterval(loadImages, 60_000)
            /\ loading = TRUE /\ live = FALSE
            /\ inflight = SetToBag({Call(TRUE, printer)})
            /\ refreshInterval = "active" /\ refreshRef = "null"
            /\ refreshTimers = 1
       [] variant = "hybrid" ->
            \* nothing starts until startFeed
            /\ loading = FALSE /\ live = FALSE
            /\ inflight = EmptyBag
            /\ refreshInterval = "null" /\ refreshRef = "null"
            /\ refreshTimers = 0
       [] variant = "live" ->
            \* loadImages(true); live starts true, so the refresh timer is set
            /\ loading = TRUE /\ live = TRUE
            /\ inflight = SetToBag({Call(TRUE, printer)})
            /\ refreshInterval = "null" /\ refreshRef = "active"
            /\ refreshTimers = 1

\* startFeed of the start/stop player: setLive(true); loadImages(true).
hybridStartFeed ==
  /\ variant = "hybrid" /\ mounted
  /\ showsStart \/ showsStopped
  /\ BagCardinality(inflight) < MaxInFlight
  /\ live' = TRUE
  /\ loadImagesCall(TRUE, printer, clearAtStop(inflight))
  /\ UNCHANGED <<variant, mounted, printer, frames, currentIndex, loopIndex,
                 playing, speed, hasLoaded>>
  /\ Commit(refreshCell)
  /\ lastOp' = "hybridStartFeed"
  /\ UNCHANGED <<scanVars, mergeVars, listingVars, slideVars, day, firstSeen, now, source, lastTick>>

\* stopFeed of the start/stop player.
hybridStopFeed ==
  /\ variant = "hybrid" /\ mounted
  /\ showsPlayer
  /\ live' = FALSE
  /\ playing' = FALSE
  /\ inflight' = markAtStop(inflight)
  /\ UNCHANGED <<variant, mounted, printer, frames, currentIndex, loopIndex,
                 loading, speed, hasLoaded>>
  /\ Commit(clearAndNull(refreshCell))
  /\ lastOp' = "hybridStopFeed"
  /\ UNCHANGED <<scanVars, mergeVars, listingVars, slideVars, day, firstSeen, now, source, lastTick>>

\* startFeed of the live player: setLive(true); loadImages(false).
liveStartFeed ==
  /\ variant = "live" /\ mounted
  /\ showsStopped
  /\ BagCardinality(inflight) < MaxInFlight
  /\ live' = TRUE
  /\ loadImagesCall(FALSE, printer, clearAtStop(inflight))
  /\ UNCHANGED <<variant, mounted, printer, frames, currentIndex, loopIndex,
                 playing, speed, hasLoaded>>
  /\ Commit(refreshCell)
  /\ lastOp' = "liveStartFeed"
  /\ UNCHANGED <<scanVars, mergeVars, listingVars, slideVars, day, firstSeen, now, source, lastTick>>

\* stopFeed of the live player: setLive(false).
liveStopFeed ==
  /\ variant = "live" /\ mounted
  /\ showsPlayer
  /\ live' = FALSE
  /\ inflight' = markAtStop(inflight)
  /\ UNCHANGED <<variant, mounted, printer, frames, currentIndex, loopIndex,
                 playing, loading, speed, hasLoaded>>
  /\ Commit(refreshCell)
  /\ lastOp' = "liveStopFeed"
  /\ UNCHANGED <<scanVars, mergeVars, listingVars, slideVars, day, firstSeen, now, source, lastTick>>

\* A refresh interval fires: loadImages(false); loadImages() in the scrub
\* player.
RefreshTick ==
  /\ mounted /\ refreshTimers > 0
  /\ BagCardinality(inflight) < MaxInFlight
  /\ loadImagesCall(FALSE, printer, inflight)
  /\ UNCHANGED <<variant, mounted, printer, frames, currentIndex, loopIndex,
                 playing, speed, live, hasLoaded>>
  /\ Commit(refreshCell)
  /\ lastOp' = "RefreshTick"
  /\ lastTick' = now
  /\ UNCHANGED <<scanVars, mergeVars, listingVars, slideVars, day, firstSeen, now, source>>

\* loadImages of the scrub player after its await.
scrubLoaded(images) ==
  /\ frames' = images
  /\ currentIndex' = (IF Len(images) > 0 THEN Len(images) - 1 ELSE 0)
  /\ loading' = FALSE
  /\ UNCHANGED <<hasLoaded, loopIndex>>

\* loadImages of the start/stop player after its await.
hybridLoaded(images, isInitial) ==
  /\ frames' = mergeFrames(frames, images, isInitial)
  /\ IF isInitial
     THEN /\ currentIndex' = (IF Len(images) > 0 THEN Len(images) - 1 ELSE 0)
          /\ loading' = FALSE
          /\ hasLoaded' = TRUE
     ELSE \* setCurrentIndex((prevIdx) => prevIdx)
          UNCHANGED <<currentIndex, loading, hasLoaded>>
  /\ UNCHANGED loopIndex

\* loadImages of the live player after its await.
liveLoaded(images, isInitial) ==
  /\ frames' = mergeFrames(frames, images, isInitial)
  /\ loading' = (IF isInitial THEN FALSE ELSE loading)
  /\ UNCHANGED <<currentIndex, loopIndex, hasLoaded>>

\* What the resumption of `call` did to the store (history).
loadOutcome(call) ==
  IF ~mounted THEN "load:dropped"
  ELSE IF variant = "scrub" \/ call.isInitial THEN "load:initial"
  ELSE IF Len(frames) = 0 THEN "load:replaced"
  ELSE IF frames' = frames THEN "load:kept"
  ELSE IF variant = "live" /\ Len(loopFramesOf(frames')) = Len(loopFramesOf(frames))
  THEN "load:merged:same-window"
  ELSE "load:merged"

\* The findRecentImages promise of a suspended call settles and loadImages
\* resumes.  State updates of an unmounted instance are dropped; a rejection
\* would leave through loadImages with no update made.
LoadResolves(call, currentMinute, hits) ==
  /\ BagIn(call, inflight)
  /\ LET promise == imagesOf(call, currentMinute, hits)
     IN /\ inflight' = inflight (-) SetToBag({call})
        /\ IF ~mounted \/ promise.settled = "rejected"
           THEN UNCHANGED <<frames, currentIndex, loopIndex, loading, hasLoaded>>
           ELSE CASE variant = "scrub" -> scrubLoaded(promise.value)
                  [] variant = "hybrid" -> hybridLoaded(promise.value, call.isInitial)
                  [] variant = "live" -> liveLoaded(promise.value, call.isInitial)
  /\ UNCHANGED <<variant, mounted, printer, playing, speed, live>>
  /\ Commit(refreshCell)
  /\ lastOp' = loadOutcome(call)
  /\ firstSeen' = [f \in Range(frames') |->
                     IF f \in DOMAIN firstSeen THEN firstSeen[f] ELSE call.day]
  /\ UNCHANGED <<scanVars, mergeVars, listingVars, slideVars, day, now, source, lastTick>>

\* The advance updater wrapping one frame late.
advanceIndexLate(prev, length) == IF prev >= length THEN 0 ELSE prev + 1

\* (prev) => prev >= frames.length - 1 ? 0 : prev + 1
advanceIndex(prev, length) == IF prev >= length - 1 THEN 0 ELSE prev + 1

\* The advance interval of the scrub and start/stop players fires.
AdvanceTick ==
  /\ variant \in {"scrub", "hybrid"} /\ mounted
  /\ advanceTimers > 0
  /\ currentIndex' = advanceIndex(currentIndex, Len(frames))
  /\ UNCHANGED <<variant, mounted, printer, frames, loopIndex, playing,
                 loading, speed, live, hasLoaded, inflight>>
  /\ Commit(refreshCell)
  /\ lastOp' = "AdvanceTick"
  /\ UNCHANGED <<scanVars, mergeVars, listingVars, slideVars, day, firstSeen, now, source, lastTick>>

\* The loop interval of the live player fires.
LoopTick ==
  /\ variant = "live" /\ mounted
  /\ advanceTimers > 0
  /\ loopIndex' = (loopIndex + 1) % Len(loopFramesOf(frames))
  /\ UNCHANGED <<variant, mounted, printer, frames, currentIndex, playing,
                 loading, speed, live, hasLoaded, inflight>>
  /\ Commit(refreshCell)
  /\ lastOp' = "LoopTick"
  /\ UNCHANGED <<scanVars, mergeVars, listingVars, slideVars, day, firstSeen, now, source, lastTick>>

\* A control of the scrub or start/stop player sets the index and pauses.
manualIndex(index) ==
  /\ variant \in {"scrub", "hybrid"} /\ mounted
  /\ showsPlayer
  /\ currentIndex' = index
  /\ playing' = FALSE
  /\ UNCHANGED <<variant, mounted, printer, frames, loopIndex, loading,
                 speed, live, hasLoaded, inflight>>
  /\ Commit(refreshCell)
  /\ lastOp' = (IF playing THEN "manualIndex:playing" ELSE "manualIndex")
  /\ UNCHANGED <<scanVars, mergeVars, listingVars, slideVars, day, firstSeen, now, source, lastTick>>

\* The range input, min 0, max frames.length - 1.
Scrub(value) == value \in 0..(Len(frames) - 1) /\ manualIndex(value)

GoToStart == manualIndex(0)

StepBack == manualIndex(Max(0, currentIndex - 1))

StepForward == manualIndex(Min(Len(frames) - 1, currentIndex + 1))

GoToLatest == manualIndex(Len(frames) - 1)

\* onClick={() => setPlaying(!playing)}
TogglePlay ==
  /\ variant \in {"scrub", "hybrid"} /\ mounted
  /\ showsPlayer
  /\ playing' = ~playing
  /\ UNCHANGED <<variant, mounted, printer, frames, currentIndex, loopIndex,
                 loading, speed, live, hasLoaded, inflight>>
  /\ Commit(refreshCell)
  /\ lastOp' = "TogglePlay"
  /\ UNCHANGED <<scanVars, mergeVars, listingVars, slideVars, day, firstSeen, now, source, lastTick>>

\* onClick={() => setSpeed(s)}
SetSpeed(s) ==
  /\ variant \in {"scrub", "hybrid"} /\ mounted
  /\ showsPlayer
  /\ s # speed
  /\ speed' = s
  /\ UNCHANGED <<variant, mounted, printer, frames, currentIndex, loopIndex,
                 playing, loading, live, hasLoaded, inflight>>
  /\ Commit(refreshCell)
  /\ lastOp' = "SetSpeed"
  /\ UNCHANGED <<scanVars, mergeVars, listingVars, slideVars, day, firstSeen, now, source, lastTick>>

\* App shows another printer's tab in the same PrinterView instance: the
\* printer prop changes, loadImages gets a new identity, and every effect
\* that depends on it re-runs.  In the scrub and live players that effect
\* calls loadImages.
PrinterChange(p) ==
  /\ mounted
  /\ p # printer
  /\ printer' = p
  /\ IF variant = "hybrid"
     THEN UNCHANGED <<loading, inflight>>
     ELSE /\ BagCardinality(inflight) < MaxInFlight
          /\ loadImagesCall(TRUE, p, inflight)
  /\ UNCHANGED <<variant, mounted, frames, currentIndex, loopIndex, playing,
                 speed, live, hasLoaded>>
  /\ Commit(refreshCell)
  /\ lastOp' = "PrinterChange"
  /\ UNCHANGED <<scanVars, mergeVars, listingVars, slideVars, day, firstSeen, now, source, lastTick>>

\* The instance is unmounted: every registered effect cleanup runs.
Unmount ==
  /\ mounted
  /\ mounted' = FALSE
  /\ CASE variant = "scrub" ->
            LET a == animationCleanup(Timer(intervalRef, advanceTimers))
                r == scrubRefreshCleanup(refreshCell)
            IN /\ intervalRef' = a.ref /\ advanceTimers' = a.n
               /\ refreshInterval' = r.ref /\ refreshTimers' = r.n
               /\ UNCHANGED <<loopRef, refreshRef>>
       [] variant = "hybrid" ->
            LET a == animationCleanup(Timer(intervalRef, advanceTimers))
                r == hybridRefreshCleanup(refreshCell, hybridRefreshDeps)
            IN /\ intervalRef' = a.ref /\ advanceTimers' = a.n
               /\ refreshRef' = r.ref /\ refreshTimers' = r.n
               /\ UNCHANGED <<loopRef, refreshInterval>>
       [] variant = "live" ->
            LET a == loopCleanup(Timer(loopRef, advanceTimers), loopDeps)
                r == liveRefreshCleanup(refreshCell, liveRefreshDeps)
            IN /\ loopRef' = a.ref /\ advanceTimers' = a.n
               /\ refreshRef' = r.ref /\ refreshTimers' = r.n
               /\ UNCHANGED <<intervalRef, refreshInterval>>
  /\ UNCHANGED <<variant, printer, frames, currentIndex, loopIndex, playing,
                 loading, speed, live, hasLoaded, inflight>>
  /\ lastOp' = "Unmount"
  /\ UNCHANGED <<scanVars, mergeVars, listingVars, slideVars, day, firstSeen, now, source, lastTick>>

Next ==
  \/ hybridStartFeed
  \/ hybridStopFeed
  \/ liveStartFeed
  \/ liveStopFeed
  \/ RefreshTick
  \/ \E call \in BagToSet(inflight), currentMinute \in Minutes :
       \E hits \in SUBSET (0..currentMinute) :
         LoadResolves(call, currentMinute, hits)
  \/ AdvanceTick
  \/ LoopTick
  \/ \E value \in Minutes : Scrub(value)
  \/ GoToStart
  \/ StepBack
  \/ StepForward
  \/ GoToLatest
  \/ TogglePlay
  \/ \E s \in Speeds : SetSpeed(s)
  \/ \E p \in PRINTERS : PrinterChange(p)
  \/ Unmount

Spec == Init /\ [][Next]_vars

\* ------------------------------------- a long-running live player
\* The live player over a day long enough for the store to outgrow the loop
\* window.  Every scan is seeded with minute MaxLoopMinute and finds an
\* unbroken run of images that starts at one of LoopStarts and ends at the
\* seed (an empty run when the start is above the seed).
LoopStarts == (1..3) \cup (MaxLoopMinute..(MaxLoopMinute + 1))

InitLoop == Init /\ variant = "live"

NextLoop ==
  \/ liveStartFeed
  \/ liveStopFeed
  \/ RefreshTick
  \/ \E call \in BagToSet(inflight), lo \in LoopStarts :
       LoadResolves(call, MaxLoopMinute, lo..MaxLoopMinute)
  \/ LoopTick
  \/ \E p \in PRINTERS : PrinterChange(p)
  \/ Unmount

SpecLoop == InitLoop /\ [][NextLoop]_vars

\* ------------------------------------------ a live player over midnight
\* The minute-of-day clock wraps to 0: hours * 60 + minutes starts again.
Midnight ==
  /\ day < MaxDay
  /\ day' = day + 1
  /\ UNCHANGED <<variant, mounted, printer, frames, currentIndex, loopIndex,
                 playing, loading, speed, live, hasLoaded, intervalRef, loopRef,
                 refreshRef, refreshInterval, advanceTimers, refreshTimers,
                 inflight, lastOp, firstSeen, now, source, lastTick>>
  /\ UNCHANGED <<scanVars, mergeVars, listingVars, slideVars>>

InitWrap == Init /\ variant = "live"

NextWrap ==
  \/ liveStartFeed
  \/ liveStopFeed
  \/ RefreshTick
  \/ \E call \in BagToSet(inflight), currentMinute \in Minutes :
       \E hits \in SUBSET (0..currentMinute) :
         LoadResolves(call, currentMinute, hits)
  \/ LoopTick
  \/ \E p \in PRINTERS : PrinterChange(p)
  \/ Unmount
  \/ Midnight

SpecWrap == InitWrap /\ [][NextWrap]_vars

\* ------------------------------------------------- the merge on its own
MergeMinutes == 0..MaxMergeMinute

\* The frames of the minutes in M, ascending; minute m carries the locator of
\* printer pr[m].
framesAt(M, pr) ==
  [i \in 1..Cardinality(M) |->
     LET m == CHOOSE x \in M : Cardinality({y \in M : y <= x}) = i
     IN Frame(pr[m], m)]

\* Stores a view can hold: strictly ascending by minute; after a printer
\* change the frames of two printers can stand side by side.
Stores ==
  {framesAt(M, pr) : M \in SUBSET MergeMinutes, pr \in [MergeMinutes -> PRINTERS]}

\* Values findRecentImages can return: ascending frames of one printer.
RefreshResults ==
  {framesAt(M, [m \in MergeMinutes |-> p]) : M \in SUBSET MergeMinutes, p \in PRINTERS}

InitMerge ==
  /\ ViewAtRest
  /\ scanAtRest
  /\ listingAtRest
  /\ slideAtRest
  /\ m_images \in RefreshResults
  /\ \E prev \in Stores : m_stores = <<prev>>
  /\ m_updates = <<>>

\* setFrames(updater) of a loadImages(false) continuation whose scan returned
\* m_images, applied to the current store.
MergeApply ==
  /\ Len(m_stores) >= 1 /\ Len(m_updates) < MaxApply
  /\ LET prev == m_stores[Len(m_stores)]
     IN /\ m_stores' = Append(m_stores, mergeFrames(prev, m_images, FALSE))
        /\ m_updates' = Append(m_updates, ~returnsPrev(prev, m_images, FALSE))
  /\ UNCHANGED m_images
  /\ UNCHANGED <<viewVars, scanVars, listingVars, slideVars>>

NextMerge == MergeApply

SpecMerge == InitMerge /\ [][NextMerge]_vars

\* ------------------------------------------------ listing-based discovery
\* Entry names are sequences of characters.
jpg == <<".", "j", "p", "g">>
JPG == <<".", "J", "P", "G">>
h2c == <<"h", "2", "c">>
h2d == <<"h", "2", "d">>

\* Names an entry of the shared folder can have: frames of two printers, a
\* two-digit frame number, an upper-case extension, another extension, and a
\* name without a frame number.
EntryNames ==
  { h2c \o <<"-", "3">> \o jpg,
    h2c \o <<"-", "1">> \o jpg,
    h2d \o <<"-", "2">> \o jpg,
    h2c \o <<"-", "1", "0">> \o jpg,
    h2d \o <<"-", "1">> \o JPG,
    h2c \o <<"-", "2">> \o <<".", "p", "n", "g">>,
    h2c \o jpg }

NoUrl == <<>>

\* An entry as the API returns it; a field the API left out is NoUrl.
Child(name, content, graph) == [name |-> name, content |-> content, graph |-> graph]

\* The entries a folder can list for one name: a download URL under one of
\* the two keys, or under neither.
ChildrenOf(name) ==
  { Child(name, <<"content">> \o name, NoUrl),
    Child(name, NoUrl, <<"graph">> \o name),
    Child(name, NoUrl, NoUrl) }

\* Folder listings: up to MaxChildren entries, in any order, names distinct.
Folders ==
  UNION { { f \in [1..n -> UNION {ChildrenOf(name) : name \in EntryNames}] :
              \A i, j \in 1..n : i # j => f[i].name # f[j].name }
          : n \in 0..MaxChildren }

Digits == <<"0", "1", "2", "3", "4", "5", "6", "7", "8", "9">>
isDigit(c) == \E i \in 1..Len(Digits) : Digits[i] = c
digitValue(c) == (CHOOSE i \in 1..Len(Digits) : Digits[i] = c) - 1

\* The `i` flag, on the characters the pattern spells out.
toLowerCase(c) ==
  CASE c = "J" -> "j" [] c = "P" -> "p" [] c = "G" -> "g" [] OTHER -> c

\* parseInt(digits, 10)
RECURSIVE parseInt(_)
parseInt(digits) ==
  IF Len(digits) = 0 THEN 0
  ELSE parseInt(SubSeq(digits, 1, Len(digits) - 1)) * 10 + digitValue(digits[Len(digits)])

\* Length of the run of digits of n that ends at position e.
RECURSIVE digitRun(_, _)
digitRun(n, e) == IF e >= 1 /\ isDigit(n[e]) THEN 1 + digitRun(n, e - 1) ELSE 0

\* child.name.match(/^(.+)-(\d+)\.jpg$/i): the digits are the whole run in
\* front of the extension (a shorter run would follow a digit, not a "-"),
\* and the printer name is everything in front of that "-".
nameMatch(n) ==
  LET e == Len(n) - 4
      k == IF e >= 1 THEN digitRun(n, e) ELSE 0
  IN IF /\ e >= 1
        /\ [i \in 1..4 |-> toLowerCase(n[e + i])] = jpg
        /\ k >= 1
        /\ e - k >= 2
        /\ n[e - k] = "-"
     THEN [matched |-> TRUE,
           printerName |-> SubSeq(n, 1, e - k - 1),
           digits |-> SubSeq(n, e - k + 1, e)]
     ELSE [matched |-> FALSE, printerName |-> <<>>, digits |-> <<>>]

\* child['@content.downloadUrl'] || child['@microsoft.graph.downloadUrl'] || ''
downloadUrlOf(child) ==
  IF child.content # NoUrl THEN child.content
  ELSE IF child.graph # NoUrl THEN child.graph
  ELSE NoUrl

\* printerMap.get(name).push(f), after printerMap.set(name, []) when the name
\* is new; the map is kept in insertion order.
mapPush(map, name, f) ==
  IF \E i \in 1..Len(map) : map[i].name = name
  THEN LET i == CHOOSE i \in 1..Len(map) : map[i].name = name
       IN [map EXCEPT ![i].frames = Append(@, f)]
  ELSE Append(map, [name |-> name, frames |-> <<f>>])

\* for (const child of children) { ... }
RECURSIVE groupChildren(_)
groupChildren(children) ==
  IF Len(children) = 0 THEN <<>>
  ELSE LET map == groupChildren(SubSeq(children, 1, Len(children) - 1))
           child == children[Len(children)]
           match == nameMatch(child.name)
           downloadUrl == downloadUrlOf(child)
       IN IF ~match.matched THEN map
          ELSE IF downloadUrl = NoUrl THEN map
          ELSE mapPush(map, match.printerName,
                       [num |-> parseInt(match.digits), url |-> downloadUrl])

RECURSIVE insertByNum(_, _)
insertByNum(f, s) ==
  IF Len(s) = 0 THEN <<f>>
  ELSE IF s[Len(s)].num <= f.num THEN Append(s, f)
  ELSE Append(insertByNum(f, SubSeq(s, 1, Len(s) - 1)), s[Len(s)])

\* frames.sort((a, b) => a.num - b.num)
RECURSIVE sortByNum(_)
sortByNum(s) ==
  IF Len(s) = 0 THEN <<>>
  ELSE insertByNum(s[Len(s)], sortByNum(SubSeq(s, 1, Len(s) - 1)))

\* Collation order of the characters of printer names: punctuation, digits,
\* letters.
Collation == <<"-", ".", "0", "1", "2", "3", "4", "5", "6", "7", "8", "9",
               "c", "d", "g", "h", "j", "n", "p">>
charRank(c) == CHOOSE i \in 1..Len(Collation) : Collation[i] = c

\* a.localeCompare(b) <= 0, for names over the characters of Collation.
RECURSIVE localeLeq(_, _)
localeLeq(a, b) ==
  IF Len(a) = 0 THEN TRUE
  ELSE IF Len(b) = 0 THEN FALSE
  ELSE IF a[1] # b[1] THEN charRank(a[1]) < charRank(b[1])
  ELSE localeLeq(Tail(a), Tail(b))

RECURSIVE insertByName(_, _)
insertByName(g, s) ==
  IF Len(s) = 0 THEN <<g>>
  ELSE IF localeLeq(s[Len(s)].name, g.name) THEN Append(s, g)
  ELSE Append(insertByName(g, SubSeq(s, 1, Len(s) - 1)), s[Len(s)])

\* result.sort((a, b) => a.name.localeCompare(b.name))
RECURSIVE sortByName(_)
sortByName(s) ==
  IF Len(s) = 0 THEN <<>>
  ELSE insertByName(s[Len(s)], sortByName(SubSeq(s, 1, Len(s) - 1)))

\* The result with each printer's frames left in listing order.
listingResultFramesUnsorted(map) ==
  sortByName([i \in 1..Len(map) |->
                [name |-> map[i].name,
                 frames |-> [j \in 1..Len(map[i].frames) |-> map[i].frames[j].url]]])

\* Lines 73-82: one PrinterImages per map entry, its frames sorted by number
\* and reduced to their URLs; then the entries sorted by name.
listingResult(map) ==
  sortByName([i \in 1..Len(map) |->
                LET sorted == sortByNum(map[i].frames)
                IN [name |-> map[i].name,
                    frames |-> [j \in 1..Len(sorted) |-> sorted[j].url]]])

\* err instanceof Error ? err.message : 'Failed to load images'
errorMessage(event) ==
  CASE event = "status" -> <<"OneDrive API returned ", "status">>
    [] event = "network" -> <<"network error">>
    [] event = "parse" -> <<"parse error">>

\* The catch block that also issues the listing request again.
catchBlockRetries(event) ==
  IF l_cancelled
  THEN UNCHANGED <<l_printers, l_loading, l_error, l_requests>>
  ELSE /\ l_error' = errorMessage(event)
       /\ l_loading' = FALSE
       /\ l_requests' = l_requests + 1
       /\ UNCHANGED l_printers

\* The catch block that sets the state of an unmounted component.
catchBlockUnguarded(event) ==
  /\ l_error' = errorMessage(event)
  /\ l_loading' = FALSE
  /\ UNCHANGED <<l_printers, l_requests>>

\* catch (err) { if (cancelled) return; setError(...); setLoading(false); }
catchBlock(event) ==
  IF l_cancelled
  THEN UNCHANGED <<l_printers, l_loading, l_error, l_requests>>
  ELSE /\ l_error' = errorMessage(event)
       /\ l_loading' = FALSE
       /\ UNCHANGED <<l_printers, l_requests>>

\* The component has mounted and its effect has run: fetchImages() is
\* suspended at `await fetch(apiUrl)`.
InitListing ==
  /\ ViewAtRest
  /\ scanAtRest
  /\ mergeAtRest
  /\ slideAtRest
  /\ l_pc = "fetch"
  /\ l_folder \in Folders
  /\ l_printers = <<>> /\ l_loading = TRUE /\ l_error = NoError
  /\ l_cancelled = FALSE
  /\ l_requests = 1
  /\ l_log = <<>>

FetchEvents == {"ok", "status", "network"}
JsonEvents == {"value", "novalue", "parse"}

\* The fetch promise settles: a response with res.ok, a response with another
\* status (line 43 throws), or a rejection.
FetchSettles(event) ==
  /\ l_pc = "fetch"
  /\ l_log' = Append(l_log, [event |-> event, cancelled |-> l_cancelled])
  /\ IF event = "ok"
     THEN /\ l_pc' = "json"
          /\ UNCHANGED <<l_printers, l_loading, l_error, l_requests>>
     ELSE /\ l_pc' = "done"
          /\ catchBlock(event)
  /\ UNCHANGED <<l_folder, l_cancelled>>
  /\ UNCHANGED <<viewVars, scanVars, mergeVars, slideVars>>

\* res.json() settles: with the folder's entries under `value`, with no
\* `value` (children = []), or with a rejection.
JsonSettles(event) ==
  /\ l_pc = "json"
  /\ l_log' = Append(l_log, [event |-> event, cancelled |-> l_cancelled])
  /\ l_pc' = "done"
  /\ IF event = "parse"
     THEN catchBlock(event)
     ELSE LET children == IF event = "value" THEN l_folder ELSE <<>>
              printerMap == groupChildren(children)
          IN IF l_cancelled
             THEN UNCHANGED <<l_printers, l_loading, l_error, l_requests>>
             ELSE /\ l_printers' = listingResult(printerMap)
                  /\ l_loading' = FALSE
                  /\ UNCHANGED <<l_error, l_requests>>
  /\ UNCHANGED <<l_folder, l_cancelled>>
  /\ UNCHANGED <<viewVars, scanVars, mergeVars, slideVars>>

\* The component unmounts: the effect's cleanup sets cancelled.
ListingUnmount ==
  /\ ~l_cancelled
  /\ l_cancelled' = TRUE
  /\ UNCHANGED <<l_pc, l_folder, l_printers, l_loading, l_error, l_requests, l_log>>
  /\ UNCHANGED <<viewVars, scanVars, mergeVars, slideVars>>

NextListing ==
  \/ \E event \in FetchEvents : FetchSettles(event)
  \/ \E event \in JsonEvents : JsonSettles(event)
  \/ ListingUnmount

SpecListing == InitListing /\ [][NextListing]_vars

\* --------------------------- the PrinterView of the listing-based application
\* useEffect(() => { if (totalFrames <= 1) return; const interval =
\* setInterval(...); return () => clearInterval(interval); }, [totalFrames])
\* run at mount: the number of active frame intervals afterwards.
frameEffect(total, n) == IF total <= 1 THEN n ELSE n + 1

\* The cleanup the effect registered, if it registered one.
frameCleanup(total, n) == IF total <= 1 THEN n ELSE n - 1

\* (prev) => (prev + 1) % totalFrames
nextFrame(prev, total) == (prev + 1) % total

\* A PrinterView has mounted for a printer of the listing (a group holds at
\* least one frame) and its effects have run: the frame effect and the reset
\* effect's setCurrentFrame(0).
InitSlides ==
  /\ ViewAtRest
  /\ scanAtRest
  /\ mergeAtRest
  /\ listingAtRest
  /\ pvMounted = TRUE
  /\ totalFrames \in 1..MaxFrames
  /\ currentFrame = 0
  /\ pvTimers = frameEffect(totalFrames, 0)

\* The frame interval fires.
FrameTick ==
  /\ pvMounted /\ pvTimers > 0
  /\ currentFrame' = nextFrame(currentFrame, totalFrames)
  /\ UNCHANGED <<pvMounted, totalFrames, pvTimers>>
  /\ UNCHANGED <<viewVars, scanVars, mergeVars, listingVars>>

\* onClick={() => setCurrentFrame(index)} of a frame indicator.
IndicatorClick(index) ==
  /\ pvMounted
  /\ index \in 0..(totalFrames - 1)
  /\ currentFrame' = index
  /\ UNCHANGED <<pvMounted, totalFrames, pvTimers>>
  /\ UNCHANGED <<viewVars, scanVars, mergeVars, listingVars>>

\* App stops rendering the view (another printer is selected): the frame
\* effect's cleanup runs.
SlidesUnmount ==
  /\ pvMounted
  /\ pvMounted' = FALSE
  /\ pvTimers' = frameCleanup(totalFrames, pvTimers)
  /\ UNCHANGED <<totalFrames, currentFrame>>
  /\ UNCHANGED <<viewVars, scanVars, mergeVars, listingVars>>

NextSlides ==
  \/ FrameTick
  \/ \E index \in 0..(MaxFrames - 1) : IndicatorClick(index)
  \/ SlidesUnmount

\* Either one probe-based player (Init, Next) or one PrinterView of the
\* listing-based application.
InitPlay == Init \/ InitSlides

NextPlay == Next \/ NextSlides

SpecPlay == InitPlay /\ [][NextPlay]_vars

\* ------------------------------ a live view in front of a running printer
\* The clock and the source are part of the model here: a discovery call is
\* seeded with the minute the clock shows when it is made, and its probes
\* load every image that existed when the call was made and may load the
\* images that appeared since.  An image stays at the source once uploaded,
\* and both printers upload in the same minutes.

\* The printer uploads the image of the current minute.
Upload ==
  /\ now \notin source
  /\ source' = source \cup {now}
  /\ UNCHANGED <<variant, mounted, printer, frames, currentIndex, loopIndex,
                 playing, loading, speed, live, hasLoaded, intervalRef, loopRef,
                 refreshRef, refreshInterval, advanceTimers, refreshTimers,
                 inflight, lastOp, day, firstSeen, now, lastTick>>
  /\ UNCHANGED <<scanVars, mergeVars, listingVars, slideVars>>

\* The clock passes to the next minute, the last minute of the day to minute
\* 0.  The refresh interval has the period of one clock minute (60_000 ms):
\* while one is active, no minute passes without its tick.
MinutePasses ==
  /\ refreshTimers > 0 => lastTick = now
  /\ now' = (now + 1) % (MaxLiveMinute + 1)
  /\ UNCHANGED <<variant, mounted, printer, frames, currentIndex, loopIndex,
                 playing, loading, speed, live, hasLoaded, intervalRef, loopRef,
                 refreshRef, refreshInterval, advanceTimers, refreshTimers,
                 inflight, lastOp, day, firstSeen, source, lastTick>>
  /\ UNCHANGED <<scanVars, mergeVars, listingVars, slideVars>>

\* The refresh interval fires, once in a clock minute.
DueRefreshTick == lastTick # now /\ RefreshTick

\* A suspended call resumes with what its scan found at the source.
SourceLoadResolves ==
  \E call \in BagToSet(inflight) :
    \E hits \in SUBSET (0..call.minute) :
      /\ call.seen \cap (0..call.minute) \subseteq hits
      /\ hits \subseteq source
      /\ LoadResolves(call, call.minute, hits)

InitLive == Init /\ variant \in {"hybrid", "live"} /\ printer = "h2c"

\* The view is started (the start/stop player) and then stays mounted and
\* live; the user may switch it from the first printer's tab to the second's.
NextLive ==
  \/ hybridStartFeed
  \/ DueRefreshTick
  \/ SourceLoadResolves
  \/ MinutePasses
  \/ Upload
  \/ PrinterChange("h2d")

SpecLive == InitLive /\ [][NextLive]_vars

\* Time passes, a due refresh tick is delivered, and every probe settles, so
\* every discovery call resumes.
FairLive ==
  /\ SpecLive
  /\ WF_vars(MinutePasses)
  /\ WF_vars(DueRefreshTick)
  /\ WF_vars(SourceLoadResolves)

\* ======================================================= discovery claims
isMiss(entry) == entry.event = "onerror"
isHit(entry) == entry.event = "onload"

\* Index of the last probe in the log that loaded, 0 when none did.
LastHit(log) ==
  LET hitsAt == {i \in 1..Len(log) : isHit(log[i])}
  IN IF hitsAt = {} THEN 0 ELSE CHOOSE i \in hitsAt : \A j \in hitsAt : j <= i

probesIssued == Len(d_log) + d_outstanding

\* C3 (as stated): one call of findRecentImages probes at most
\* maxCount + maxGap candidate ordinals.
C3_ProbesAtMostCountPlusGap == probesIssued <= d_count + d_maxGap

\* C3 (amended): one call of findRecentImages probes at most
\* maxCount * max(maxGap, 1) candidate ordinals: every hit resets the miss
\* counter, so each of up to maxCount hits may follow maxGap - 1 misses.
C3_ProbesAtMostCountTimesGap == probesIssued <= d_count * Max(d_maxGap, 1)

\* A finished scan that used more than maxCount + maxGap probes and met the
\* product bound exactly.
C3_Witness ==
  /\ d_pc = "done"
  /\ Len(d_log) > d_count + d_maxGap
  /\ Len(d_log) = d_count * d_maxGap

\* C7: once maxGap consecutive candidates have missed with no hit between
\* them, the scan is over: that miss is the last probe, nothing is
\* outstanding, and nothing at or below the run is returned.
C7_GapTerminatesScan ==
  d_maxGap >= 1 =>
    \A i \in 1..Len(d_log) :
      (/\ i + d_maxGap - 1 <= Len(d_log)
       /\ \A j \in i..(i + d_maxGap - 1) : isMiss(d_log[j]))
      => /\ Len(d_log) = i + d_maxGap - 1
         /\ d_pc = "done"
         /\ d_outstanding = 0
         /\ \A k \in 1..Len(d_returned) : d_returned[k].minute > d_log[i].minute

\* The spec's example, shifted down by 90: start 5, maxGap 3, hits at 5 and 4,
\* misses at 3, 2, 1; the result is [4, 5] and minute 0 was never probed.
C7_Witness ==
  /\ d_pc = "done" /\ d_start = 5 /\ d_maxGap = 3
  /\ [i \in 1..Len(d_log) |-> d_log[i].event]
       = <<"onload", "onload", "onerror", "onerror", "onerror">>
  /\ d_returned = <<Frame(d_printer, 4), Frame(d_printer, 5)>>
  /\ \A i \in 1..Len(d_log) : d_log[i].minute # 0

\* C8: findRecentImages never holds or returns more than maxCount frames, and
\* once maxCount hits are collected it has returned with no probe outstanding.
C8_AtMostCountFrames ==
  d_pc # "off" =>
    /\ Len(d_results) <= d_count
    /\ Len(d_returned) <= d_count
    /\ Len(d_results) >= d_count => (d_pc = "done" /\ d_outstanding = 0)

\* A scan that stopped on its maxCount-th hit with lower minutes left.
C8_Witness ==
  /\ d_pc = "done" /\ d_count >= 2
  /\ Len(d_returned) = d_count
  /\ d_m >= 0
  /\ isHit(d_log[Len(d_log)])

\* C9: the sequence findRecentImages returns is strictly ascending by minute.
C9_ReturnedAscending == d_pc = "done" => StrictlyAscending(d_returned)

\* A returned sequence of three frames with a gap in it.
C9_Witness ==
  /\ d_pc = "done"
  /\ Len(d_returned) = 3
  /\ d_returned[2].minute > d_returned[1].minute + 1

C10_ErrorCountsAsMiss ==
  /\ d_pc # "rejected"
  /\ d_misses = Len(d_log) - LastHit(d_log)
  /\ minutesOf(d_results) = {d_log[i].minute : i \in {j \in 1..Len(d_log) : isHit(d_log[j])}}
  /\ d_pc = "done" =>
       \A k \in 1..Len(d_returned) :
         \E minute \in 0..d_start : d_returned[k] = Frame(d_printer, minute)

\* C10: a probe whose load fails counts as a miss (the miss counter is the
\* number of failed probes since the last hit, and only loaded minutes are
\* collected); the call never rejects and always completes with a frame list.
C10_ProbeFailureIsMiss == [](C10_ErrorCountsAsMiss) /\ <>(d_pc = "done")

\* A call that completed with frames although a probe failed between two hits.
C10_Witness ==
  /\ d_pc = "done"
  /\ \E i, j, k \in 1..Len(d_log) :
       i < j /\ j < k /\ isHit(d_log[i]) /\ isMiss(d_log[j]) /\ isHit(d_log[k])
  /\ Len(d_returned) >= 2

\* C19: within one scan the probes go out one at a time in strictly
\* descending minute order: the probes resolved so far are those of
\* startMinute, startMinute - 1, ... in that order, at most one probe is
\* outstanding, and it is the probe of the next lower minute, issued after
\* every probe above it has resolved.
C19_ProbesOneAtATimeDescending ==
  /\ d_outstanding <= 1
  /\ d_outstanding = 1 <=> d_pc = "await"
  /\ \A i \in 1..Len(d_log) : d_log[i].minute = d_start - (i - 1)
  /\ d_pc = "await" => d_m = d_start - Len(d_log)

\* Three probes have resolved, hits and misses among them, and the fourth is
\* outstanding.
C19_Witness ==
  /\ d_pc = "await" /\ d_outstanding = 1
  /\ Len(d_log) = 3
  /\ \E i, j \in 1..3 : isHit(d_log[i]) /\ isMiss(d_log[j])
  /\ d_m = d_start - 3

\* ============================================================ view claims
\* The step resumes the suspended call `call`.
resumes(call) == BagIn(call, inflight) /\ inflight' = inflight (-) SetToBag({call})

stoppable == variant \in {"hybrid", "live"}

\* C1: a discovery call that was in flight when the view was stopped leaves
\* the frame store as it was when it resolves, and while the view is stopped
\* no advance or refresh timer is active.
C1_StoppedViewDiscardsLoad ==
  [][/\ \A call \in BagToSet(inflight) :
          (call.atStop /\ resumes(call)) => frames' = frames
     /\ (stoppable /\ ~live') => (advanceTimers' = 0 /\ refreshTimers' = 0)]_vars

\* C2: the frame store is strictly ascending by minute, hence free of
\* duplicate minutes, in every reachable state.
C2_StoreStrictlyAscending == StrictlyAscending(frames)

\* A refresh merge has just added frames to a store that now holds three.
C2_Witness == lastOp = "load:merged" /\ Len(frames) = 3

\* C4: applying the result of a refresh (a loadImages call that is not the
\* initial one) keeps every frame of the store, minute and locator.
C4_RefreshKeepsFrames ==
  [][\A call \in BagToSet(inflight) :
       (mounted /\ ~call.isInitial /\ resumes(call))
       => Range(frames) \subseteq Range(frames')]_vars

\* C5: whenever the store of the scrub or start/stop player is non-empty,
\* 0 <= currentIndex < frames.length.
C5_IndexInRange ==
  (variant \in {"scrub", "hybrid"} /\ Len(frames) > 0)
  => (0 <= currentIndex /\ currentIndex < Len(frames))

\* An advance tick has just wrapped from the last of three frames to the first.
C5_Witness == lastOp = "AdvanceTick" /\ Len(frames) = 3 /\ currentIndex = 0

advanceRef == IF variant = "live" THEN loopRef ELSE intervalRef

\* C6: at most one advance interval and at most one refresh interval are
\* active, and an active one is the one its handle cell holds (no interval
\* is started over a previous one that was not cleared).
C6_AtMostOneTimerPerKind ==
  /\ advanceTimers = (IF advanceRef = "active" THEN 1 ELSE 0)
  /\ refreshTimers = (IF refreshCell.ref = "active" THEN 1 ELSE 0)

\* A speed change has just restarted the advance interval while the refresh
\* interval runs.
C6_Witness == lastOp = "SetSpeed" /\ advanceTimers = 1 /\ refreshTimers = 1

\* ========================================================== merge claims
\* C11: applying a refresh result D to a non-empty store S gives the sequence
\* that is strictly ascending by minute, whose minutes are those of S and of
\* D together, in which every frame of S is kept and every minute only D has
\* carries D's frame.
C11_MergeIsOrderedUnion ==
  (Len(m_stores) >= 2 /\ Len(m_stores[1]) > 0) =>
    LET S == m_stores[1]
        D == m_images
        R == m_stores[2]
    IN /\ StrictlyAscending(R)
       /\ minutesOf(R) = minutesOf(S) \cup minutesOf(D)
       /\ Range(S) \subseteq Range(R)
       /\ \A f \in Range(D) : f.minute \notin minutesOf(S) => f \in Range(R)

\* The spec's example with minutes 10..13 moved to 0..3, the store's frame of
\* the shared minute taken from the other printer: [0, 2'] merged with
\* [1, 2, 3] gives [0, 1, 2', 3].
C11_Witness ==
  /\ Len(m_stores) >= 2
  /\ m_stores[1] = <<Frame("h2c", 0), Frame("h2d", 2)>>
  /\ m_images = <<Frame("h2c", 1), Frame("h2c", 2), Frame("h2c", 3)>>
  /\ m_stores[2] = <<Frame("h2c", 0), Frame("h2c", 1), Frame("h2d", 2), Frame("h2c", 3)>>

\* C12: applying a refresh result whose minutes are all in the store already
\* leaves the store the same value and signals no update; and applying a
\* refresh result a second time changes nothing.
C12_ContainedResultKeepsStore ==
  /\ \A i \in 1..Len(m_updates) :
       minutesOf(m_images) \subseteq minutesOf(m_stores[i])
       => (m_stores[i + 1] = m_stores[i] /\ ~m_updates[i])
  /\ Len(m_stores) >= 3 => m_stores[3] = m_stores[2]

\* ====================================================== live loop claims
\* const currentFrame = loopFrames[safeIndex] ?? null
safeIndex == safeIndexOf(loopIndex, frames)

\* C13: in the live player, whenever the store is non-empty the index that
\* selects the displayed frame is within 0 .. min(LOOP_COUNT, store length) - 1.
C13_LoopIndexInWindow ==
  (variant = "live" /\ Len(frames) > 0)
  => (0 <= safeIndex /\ safeIndex <= Min(LOOP_COUNT, Len(frames)) - 1)

\* A full replace has just cut a store of more than LOOP_COUNT frames down to
\* nine while the loop position still points at the tenth of the old window.
C13_Witness ==
  /\ variant = "live" /\ lastOp = "load:initial"
  /\ Len(frames) = LOOP_COUNT - 1 /\ loopIndex = LOOP_COUNT - 1 /\ safeIndex = 0

\* ============================================== display and control claims
\* Position in the store of the frame the view displays: frames[currentIndex]
\* in the scrub and start/stop players, loopFrames[safeIndex] in the live one.
displayIndex ==
  IF variant = "live"
  THEN Len(frames) - Len(loopFramesOf(frames)) + safeIndex
  ELSE currentIndex

\* C14: when an initial discovery (one made under the Loading state) has just
\* completed with a non-empty result, the frame displayed is the latest one:
\* the display index is store length - 1.
C14_InitialLoadShowsLatest ==
  (lastOp = "load:initial" /\ Len(frames) > 0) => displayIndex = Len(frames) - 1

\* What the user does to a view (values of lastOp).
UserOps ==
  {"manualIndex", "manualIndex:playing", "TogglePlay", "SetSpeed",
   "hybridStartFeed", "hybridStopFeed", "liveStartFeed", "liveStopFeed",
   "PrinterChange", "Unmount"}

\* C15: a manual index change made while playing leaves the player not
\* playing with no advance timer active, and the step that changes the index
\* next, with play not pressed since, is a user action.
C15_ManualChangeStopsPlayback ==
  [][/\ lastOp' = "manualIndex:playing" => (~playing' /\ advanceTimers' = 0)
     /\ (lastOp = "manualIndex:playing" /\ currentIndex' # currentIndex)
        => lastOp' \in UserOps]_vars

StartOps == {"hybridStartFeed", "liveStartFeed"}

\* C16: while a view is stopped, and once it is unmounted, none of its
\* advance and refresh timers is active; a stopped view goes live again only
\* by startFeed, and an unmounted one stays unmounted.
C16_NoTimerWhileStopped ==
  [][/\ ((stoppable /\ ~live') \/ ~mounted')
        => (advanceTimers' = 0 /\ refreshTimers' = 0)
     /\ (stoppable /\ ~live /\ live') => lastOp' \in StartOps
     /\ ~mounted => ~mounted']_vars

\* stopFeed of the live player has just cleared a running loop timer and the
\* refresh timer while a discovery call is still in flight.
C16_Witness ==
  /\ lastOp = "liveStopFeed" /\ Len(frames) > 1
  /\ inflight # EmptyBag
  /\ loopRef = "cleared" /\ refreshRef = "null"
  /\ advanceTimers = 0 /\ refreshTimers = 0

StopOps == {"hybridStopFeed", "liveStopFeed"}

\* C17: stopFeed leaves the frame store and the display index as they are,
\* and the discovery a resume starts (startFeed: an initial call in the
\* start/stop player, a refresh call in the live player) keeps every frame
\* the store holds when it resolves.
C17_StopAndResumeKeepFrames ==
  [][/\ lastOp' \in StopOps
        => (frames' = frames /\ currentIndex' = currentIndex /\ loopIndex' = loopIndex)
     /\ \A call \in BagToSet(inflight) :
          (/\ stoppable /\ mounted
           /\ variant = "hybrid" \/ ~call.isInitial
           /\ resumes(call))
          => Range(frames) \subseteq Range(frames')]_vars

\* C18: in the live player with the feed live, applying a refresh result
\* leaves the loop position as it is; when the loop window keeps its length
\* the loop effect's dependencies are unchanged, so React runs neither its
\* cleanup nor its body and the loop timer and its handle stay as they are;
\* when the length changes, the displayed position is the loop position
\* modulo the new length.
C18_RefreshKeepsLoopTimer ==
  [][\A call \in BagToSet(inflight) :
       (variant = "live" /\ mounted /\ live /\ ~call.isInitial /\ resumes(call))
       => /\ loopIndex' = loopIndex
          /\ IF Len(loopFramesOf(frames')) = Len(loopFramesOf(frames))
             THEN /\ loopDeps' = loopDeps
                  /\ loopRef' = loopRef
                  /\ advanceTimers' = advanceTimers
             ELSE Len(frames') > 0
                  => safeIndex' = loopIndex % Len(loopFramesOf(frames'))]_vars

\* A refresh merge has just added a frame to a store of LOOP_COUNT or more
\* frames: the window keeps its length, the loop timer runs on and the loop
\* position is still the last of the window.
C18_Witness ==
  /\ lastOp = "load:merged:same-window" /\ live
  /\ Len(frames) > LOOP_COUNT
  /\ loopRef = "active" /\ advanceTimers = 1
  /\ loopIndex = LOOP_COUNT - 1

\* C20: the store of the live player is in capture order: no frame stands
\* before a frame that a scan of an earlier day found, so a frame first found
\* by a scan made after midnight stands behind the frames found before it.
C20_StoreInCaptureOrder ==
  variant = "live" =>
    \A i, j \in 1..Len(frames) :
      i < j => firstSeen[frames[i]] <= firstSeen[frames[j]]

\* ========================================================= listing claims
\* The entries of the folder that name a frame and carry a download URL.
validEntries ==
  { i \in 1..Len(l_folder) :
      nameMatch(l_folder[i].name).matched /\ downloadUrlOf(l_folder[i]) # NoUrl }

\* The embedded number of the entry that a URL of the result came from.
numOfUrl(url) ==
  LET i == CHOOSE i \in validEntries : downloadUrlOf(l_folder[i]) = url
  IN parseInt(nameMatch(l_folder[i].name).digits)

listingSucceeded ==
  /\ l_pc = "done"
  /\ l_log[Len(l_log)] = [event |-> "value", cancelled |-> FALSE]

\* C21: after a successful listing, the groups are exactly the printer names
\* of the entries that match <printer>-<number>.jpg and carry a download URL,
\* in strictly ascending name order; each group holds exactly the URLs of
\* its printer's entries, in ascending order of the embedded number; an
\* entry that does not match, or has no URL, is in no group.
C21_ListingGroupsFrames ==
  listingSucceeded =>
    /\ {l_printers[g].name : g \in 1..Len(l_printers)}
         = {nameMatch(l_folder[i].name).printerName : i \in validEntries}
    /\ \A g, h \in 1..Len(l_printers) :
         g < h => /\ l_printers[g].name # l_printers[h].name
                  /\ localeLeq(l_printers[g].name, l_printers[h].name)
    /\ \A g \in 1..Len(l_printers) :
         LET fs == l_printers[g].frames
             mine == { i \in validEntries :
                         nameMatch(l_folder[i].name).printerName = l_printers[g].name }
         IN /\ Range(fs) = {downloadUrlOf(l_folder[i]) : i \in mine}
            /\ Len(fs) = Cardinality(mine)
            /\ \A j, k \in 1..Len(fs) : j < k => numOfUrl(fs[j]) < numOfUrl(fs[k])

\* The folder lists h2c-3.jpg, h2c-1.jpg, h2d-2.jpg in that order, each with a
\* download URL: the result is h2c with frames 1, 3 and then h2d with frame 2.
C21_Witness ==
  /\ listingSucceeded
  /\ [i \in 1..Len(l_folder) |-> l_folder[i].name]
       = << h2c \o <<"-", "3">> \o jpg, h2c \o <<"-", "1">> \o jpg, h2d \o <<"-", "2">> \o jpg >>
  /\ Len(l_printers) = 2
  /\ l_printers[1].name = h2c /\ l_printers[2].name = h2d
  /\ Len(l_printers[1].frames) = 2 /\ Len(l_printers[2].frames) = 1
  /\ [j \in 1..2 |-> numOfUrl(l_printers[1].frames[j])] = <<1, 3>>
  /\ [j \in 1..1 |-> numOfUrl(l_printers[2].frames[j])] = <<2>>


ListingFailures == {"status", "network", "parse"}

\* The last completion of the listing request was a failure on a mounted
\* component.
listingFailed ==
  /\ l_pc = "done"
  /\ l_log[Len(l_log)].event \in ListingFailures
  /\ ~l_log[Len(l_log)].cancelled

\* C22: once the listing request has failed on a mounted component (a status
\* other than 2xx, a rejected fetch, a body that does not parse), the error
\* is set to the failure's message, loading is false and the printer list is
\* still empty, in that state and in every later one; the request made at
\* mount is the only one ever issued.
C22_ListingFailureIsFinal ==
  /\ l_requests = 1
  /\ listingFailed =>
       /\ l_error = errorMessage(l_log[Len(l_log)].event)
       /\ l_error # NoError
       /\ ~l_loading
       /\ l_printers = <<>>

\* The listing of a folder that holds a frame failed with a status other than
\* 2xx; the component has since unmounted.
C22_Witness ==
  /\ listingFailed
  /\ l_log[Len(l_log)].event = "status"
  /\ validEntries # {}
  /\ l_cancelled
  /\ l_error # NoError /\ ~l_loading /\ l_printers = <<>>


\* C24: once the component has unmounted (cancelled is set), no completion of
\* the listing request, success or failure, changes printers, loading or
\* error.
C24_CancelledCompletionIsDropped ==
  [][l_cancelled => UNCHANGED <<l_printers, l_loading, l_error>>]_vars

\* The listing of a folder that holds a frame succeeded after the component
\* had unmounted: the state is still the initial one.
C24_Witness ==
  /\ l_pc = "done"
  /\ l_log[Len(l_log)] = [event |-> "value", cancelled |-> TRUE]
  /\ validEntries # {}
  /\ l_printers = <<>> /\ l_loading /\ l_error = NoError


\* Printer names that the folder holds a frame for.
printersInFolder == {nameMatch(l_folder[i].name).printerName : i \in validEntries}

\* App renders a PrinterView with frames for the printer: the selector and
\* views block is shown and the list has a group of that name.
displayed(name) ==
  /\ ~l_loading
  /\ l_error = NoError
  /\ \E g \in 1..Len(l_printers) :
       l_printers[g].name = name /\ Len(l_printers[g].frames) > 0

\* C23: a failure of discovery on behalf of one printer never prevents
\* another printer's frames from being displayed: when the folder holds
\* frames of two printers and the listing request has completed on a mounted
\* component, whatever went wrong for the one, the other is displayed.
C23_FailureScopedToOnePrinter ==
  (l_pc = "done" /\ ~l_log[Len(l_log)].cancelled) =>
    \A p, q \in printersInFolder : p # q => displayed(q)


\* ------------------------------------------------ discovery, as a whole
\* The sets of existing images that agree with every probe answered so far.
hitSetsOfLog ==
  { H \in SUBSET (0..d_start) :
      \A i \in 1..Len(d_log) : (d_log[i].minute \in H) <=> isHit(d_log[i]) }

\* The ordinals above h, up to the start.
above(h) == (h + 1)..d_start

\* A run of maxGap consecutive missing ordinals lies above h.
gapAbove(H, h) ==
  \E top \in above(h) :
    /\ top - d_maxGap + 1 > h
    /\ \A x \in (top - d_maxGap + 1)..top : x \notin H

\* The scan gets as far as ordinal h.
reaches(H, h) ==
  /\ Cardinality(H \cap above(h)) < d_count
  /\ ~gapAbove(H, h)

\* C25: for maxGap >= 1 and whatever images exist, findRecentImages returns
\* exactly the existing ordinals h of 0..start with fewer than maxCount
\* existing ordinals above h and no run of maxGap consecutive missing
\* ordinals above h; ordinal 0 is probed when the scan gets that far, and no
\* negative ordinal is ever probed.
C25_ReturnsReachedHits ==
  /\ \A i \in 1..Len(d_log) : d_log[i].minute >= 0
  /\ (d_pc = "done" /\ d_maxGap >= 1) =>
       \A H \in hitSetsOfLog :
         /\ minutesOf(d_returned) = {h \in H : reaches(H, h)}
         /\ reaches(H, 0) => \E i \in 1..Len(d_log) : d_log[i].minute = 0

\* Start 5, maxGap 2, maxCount 3: hit at 5, miss at 4, hit at 3, miss at 2,
\* hit at 1.  The two gaps of one miss drop nothing, the third hit ends the
\* scan and ordinal 0 is not probed.
C25_Witness ==
  /\ d_pc = "done" /\ d_start = 5 /\ d_maxGap = 2 /\ d_count = 3
  /\ [i \in 1..Len(d_log) |-> d_log[i].event]
       = <<"onload", "onerror", "onload", "onerror", "onload">>
  /\ minutesOf(d_returned) = {5, 3, 1}


\* ===================================================== concurrency claims
\* The printer a frame was discovered for (getImageUrl puts it in the URL).
printerOf(frame) == frame.url[1]

\* C26: whenever a mounted view is out of Loading, every frame of its store
\* was discovered for the printer the view shows now; a result for the
\* previous printer that arrives after the printer changed is neither
\* installed as the store nor merged into it.
C26_StoreBelongsToShownPrinter ==
  (mounted /\ ~loading) => \A i \in 1..Len(frames) : printerOf(frames[i]) = printer


\* C27: at most one discovery scan of a view is unresolved at any time.
C27_OneScanInFlight == BagCardinality(inflight) <= 1


\* ==================================================== refresh and Loading
\* The resumption of `call` applies a refresh result to a non-empty store of
\* a mounted view.
appliesRefresh(call) ==
  /\ mounted /\ ~call.isInitial /\ Len(frames) > 0
  /\ resumes(call)

\* C28: in the start/stop player, a refresh result applied while the display
\* index is the last of the store leaves the display index at the last of the
\* merged store.
C28_RefreshFollowsLatest ==
  [][\A call \in BagToSet(inflight) :
       (variant = "hybrid" /\ appliesRefresh(call) /\ currentIndex = Len(frames) - 1)
       => currentIndex' = Len(frames') - 1]_vars

\* C29: in the scrub and start/stop players, a refresh result applied while
\* the display index is not the last of the store leaves the minute of the
\* frame on display and the playing flag as they were.
C29_RefreshKeepsDisplayedFrame ==
  [][\A call \in BagToSet(inflight) :
       (/\ variant \in {"scrub", "hybrid"}
        /\ appliesRefresh(call)
        /\ currentIndex < Len(frames) - 1)
       => /\ playing' = playing
          /\ currentIndex' < Len(frames')
          /\ frames'[currentIndex' + 1].minute = frames[currentIndex + 1].minute]_vars

\* The first discovery of the view has completed: the view has been in
\* Loading and has left it.
firstDiscoveryDone == ~loading /\ (variant = "hybrid" => hasLoaded)

\* C30: once the first discovery of a mounted view has completed, no refresh
\* tick, stop or resume sets loading to true.
C30_LoadingEnteredOnce ==
  [][(/\ mounted /\ firstDiscoveryDone
      /\ lastOp' \in {"RefreshTick"} \cup StartOps \cup StopOps)
     => ~loading']_vars


\* ========================================================= playback claims
\* One advance from index i of n frames to index j: the next index, or the
\* first one after the last.
advances(i, n, j) ==
  /\ i <= n - 1
  /\ i < n - 1 => j = i + 1
  /\ i = n - 1 => j = 0

\* An advance timer is active exactly when the player is mounted and playing
\* and holds more than one frame.  The PrinterView of the listing-based
\* application has no pause: it plays whenever it is mounted.
timerIffPlaying ==
  /\ variant \in {"scrub", "hybrid"} =>
       ((advanceTimers > 0) <=> (mounted /\ playing /\ Len(frames) > 1))
  /\ (pvTimers > 0) <=> (pvMounted /\ totalFrames > 1)

\* C32: in the scrub and start/stop players and in the PrinterView of the
\* listing-based application, an advance tick happens only while playing
\* and moves the display index from i to i + 1, or from the last index to 0;
\* an advance timer is active exactly when the player is playing and its
\* store holds more than one frame.
C32_AdvanceWhilePlaying ==
  /\ [](timerIffPlaying)
  /\ [][/\ AdvanceTick => playing /\ advances(currentIndex, Len(frames), currentIndex')
        /\ FrameTick => advances(currentFrame, totalFrames, currentFrame')]_vars

\* The start/stop player is playing two frames and an advance tick has just
\* moved it from the first to the second.
C32_Witness ==
  /\ variant = "hybrid" /\ mounted /\ playing
  /\ lastOp = "AdvanceTick"
  /\ Len(frames) = 2 /\ currentIndex = 1
  /\ advanceTimers = 1


\* ========================================================= liveness claims
\* C31: under FairLive, whenever the image of the current minute exists at
\* the source while the view is mounted and live, the frame of that minute
\* of the printer the view shows is eventually in the view's store, unless
\* the view is stopped or unmounted first.
C31_CurrentFrameEventuallyStored ==
  \A m \in 0..MaxLiveMinute :
    (now = m /\ m \in source /\ mounted /\ live)
      ~> (Frame(printer, m) \in Range(frames) \/ ~mounted \/ ~live)

====
